---- MODULE Spec2Model ----
(***************************************************************************)
(* The ban sub-state of the chat room (common/src/state/ban.rs): BansV1 as *)
(* a ComposableState over the room's member directory and configuration.   *)
(*                                                                         *)
(* Spec        one replica: it starts from the empty collection and takes  *)
(*             deltas (apply_delta), syncs with a peer collection          *)
(*             (summarize / delta / apply_delta) and answers delta         *)
(*             requests.                                                   *)
(* SpecForge   the replica of Spec on a network that also delivers records *)
(*             whose signature was not made by their banner.               *)
(* SpecVerify  get_invalid_bans / verify as a function of an arbitrary     *)
(*             collection, member directory and quota.                     *)
(* SpecDelta   summarize / delta as functions of an arbitrary collection.  *)
(* SpecReorder two replicas that are offered the same two deltas in        *)
(*             opposite orders.                                            *)
(* SpecRoom    the replica of Spec in a room whose configuration sub-state *)
(*             takes deltas too.                                           *)
(* SpecStale   a replica in a room that members leave and whose            *)
(*             configuration changes.                                      *)
(* SpecContractual  the verify and apply_delta that #[contractual]         *)
(*             (contractual-macro/src/lib.rs) generates for a struct of    *)
(*             three fields.                                               *)
(***************************************************************************)
EXTENDS Integers, Sequences, FiniteSets, TLC

\* ------------------------------------------------------------- bounds
\* banned_at ranges over 1..MaxTime
MaxTime == 2
\* a delta, a peer collection and a summary hold at most MaxDelta entries
MaxDelta == 2
\* configuration.max_user_bans ranges over 0..MaxQuota
MaxQuota == 2
\* a directly constructed collection (SpecVerify) holds at most MaxBans records
MaxBans == 3

\* ------------------------------------------------------------- identities
\* The room owner O and two further identities A and B; X is a key that
\* belongs to no member (the forger's key).
MemberIds == {"O", "A", "B"}
Attacker == "X"
NoInviter == "-"

\* parameters.owner_id(): ChatRoomParametersV1 is fixed at room creation.
owner_id == "O"

VARIABLES
    members,        \* parent_state.members: the member directory
    max_user_bans,  \* parent_state.configuration.configuration.max_user_bans
    bans,           \* self.0 of the replica's BansV1
    last,           \* the call that has just returned, with its arguments and result
    offered,        \* the ban records the network can deliver to the replica
    bans2,          \* self.0 of a second replica (SpecReorder)
    net,            \* the deltas in flight to each replica, in arrival order (SpecReorder)
    room            \* the value of a struct composed by #[contractual] (SpecContractual)

vars == <<members, max_user_bans, bans, last, offered, bans2, net, room>>

\* ------------------------------------------------------------- members
\* Member: an identity and the identity of its inviter (none for the owner).
Member(m, inviter) == [id |-> m, invited_by |-> inviter]

\* The directories considered: the owner present or not, every other
\* identity absent or invited by any other identity (so chains may be
\* broken or cyclic).
MemberChoices(m) ==
    IF m = owner_id
    THEN {{}, {Member(m, NoInviter)}}
    ELSE {{}} \cup {{Member(m, i)} : i \in MemberIds \ {m}}

RECURSIVE DirectoriesOver(_)
DirectoriesOver(ids) ==
    IF ids = {} THEN {{}}
    ELSE LET m == CHOOSE x \in ids : TRUE
         IN  {c \cup d : c \in MemberChoices(m), d \in DirectoriesOver(ids \ {m})}

Directories == DirectoriesOver(MemberIds)

\* MembersV1::members_by_member_id: MemberId -> member.
members_by_member_id(ms) ==
    [i \in {m.id : m \in ms} |-> CHOOSE m \in ms : m.id = i]

\* MembersV1::get_invite_chain: the inviters of `member`, nearest first, up to
\* the owner; an error on a cycle or on an inviter that is not in the directory.
RECURSIVE invite_walk(_, _, _, _)
invite_walk(member_map, current, visited, chain) ==
    IF current.id = owner_id THEN [ok |-> TRUE, chain |-> chain]
    ELSE IF current.id \in visited THEN [ok |-> FALSE, chain |-> <<>>]
    ELSE IF current.invited_by \notin DOMAIN member_map
         THEN [ok |-> FALSE, chain |-> <<>>]
    ELSE invite_walk(member_map, member_map[current.invited_by],
                     visited \cup {current.id},
                     Append(chain, member_map[current.invited_by]))

get_invite_chain(ms, member) ==
    invite_walk(members_by_member_id(ms), member, {}, <<>>)

\* ------------------------------------------------------------- signatures
\* util::sign_struct / util::verify_struct: a signature binds the signed
\* payload to the signing key; ed25519 signing is deterministic.
sign_struct(msg, key) == [msg |-> msg, key |-> key]

verify_struct(msg, signature, key) == signature.msg = msg /\ signature.key = key

\* freenet_scaffold::util::fast_hash over the signature's bytes (collision free
\* on the signatures considered).
fast_hash(signature) ==
    <<signature.key, signature.msg.owner_member_id,
      signature.msg.banned_at, signature.msg.banned_user>>

\* ------------------------------------------------------------- ban records
UserBan(t, user) ==
    [owner_member_id |-> owner_id, banned_at |-> t, banned_user |-> user]

\* AuthorizedUserBan::new
AuthorizedUserBan_new(ban, banned_by) ==
    [ban |-> ban, banned_by |-> banned_by, signature |-> sign_struct(ban, banned_by)]

\* A record whose signature was made with a key that is not the banner's.
ForgedUserBan(ban, banned_by) ==
    [ban |-> ban, banned_by |-> banned_by, signature |-> sign_struct(ban, Attacker)]

\* AuthorizedUserBan::verify_signature
verify_signature(b, banner_verifying_key) ==
    verify_struct(b.ban, b.signature, banner_verifying_key)

\* AuthorizedUserBan::id
id(b) == fast_hash(b.signature)

\* The (banner, target) pairs of the records considered: B banned by the owner
\* and B banned by A. The directory decides what A is to B: its inviter
\* (O invites A, A invites B), its invitee (O invites B, B invites A), unrelated,
\* or unknown.
BanPairs == {<<"O", "B">>, <<"A", "B">>}

BanRecords ==
    {AuthorizedUserBan_new(UserBan(t, p[2]), p[1]) : t \in 1..MaxTime, p \in BanPairs}
    \cup {ForgedUserBan(UserBan(t, p[2]), p[1]) : t \in 1..MaxTime, p \in BanPairs}

\* The records of BanRecords that their banner signed.
SignedBanRecords == {b \in BanRecords : verify_signature(b, b.banned_by)}

BanIds == {id(b) : b \in BanRecords}

SeqsUpTo(S, n) == UNION {[1..k -> S] : k \in 0..n}

Range(s) == {s[i] : i \in 1..Len(s)}

\* ------------------------------------------------------------- get_invalid_bans
\* HashMap::insert
Insert(map, k, v) ==
    [x \in (DOMAIN map) \cup {k} |-> IF x = k THEN v ELSE map[x]]

\* check_ban with the owner test moved in front of the two directory lookups.
check_ban_owner_first(ban, ms) ==
    LET member_map == members_by_member_id(ms) IN
    IF ban.banned_by = owner_id THEN ""
    ELSE IF ban.banned_by \notin DOMAIN member_map
    THEN "Banning member not found in member list"
    ELSE IF ban.ban.banned_user \notin DOMAIN member_map
    THEN "Banned member not found in member list"
    ELSE LET r == get_invite_chain(ms, member_map[ban.banned_by])
         IN  IF ~r.ok THEN "Error getting invite chain"
             ELSE IF ~\E k \in 1..Len(r.chain) : r.chain[k].id = ban.ban.banned_user
             THEN "Banner is not in the invite chain of the banned member"
             ELSE ""

\* check_ban taking a failed invite-chain lookup for an empty chain of a
\* member the owner invited: the ban is not marked for it.
check_ban_chain_error_ignored(ban, ms) ==
    LET member_map == members_by_member_id(ms) IN
    IF ban.banned_by \notin DOMAIN member_map
    THEN "Banning member not found in member list"
    ELSE IF ban.ban.banned_user \notin DOMAIN member_map
    THEN "Banned member not found in member list"
    ELSE IF ban.banned_by # owner_id
    THEN LET r == get_invite_chain(ms, member_map[ban.banned_by])
         IN  IF ~r.ok THEN ""
             ELSE IF ~\E k \in 1..Len(r.chain) : r.chain[k].id = ban.ban.banned_user
             THEN "Banner is not in the invite chain of the banned member"
             ELSE ""
    ELSE ""

\* The body of the loop over self.0: the reason the ban is invalid, "" if none.
check_ban(ban, ms) ==
    LET member_map == members_by_member_id(ms) IN
    IF ban.banned_by \notin DOMAIN member_map
    THEN "Banning member not found in member list"
    ELSE IF ban.ban.banned_user \notin DOMAIN member_map
    THEN "Banned member not found in member list"
    ELSE IF ban.banned_by # owner_id
    THEN LET banning_member == member_map[ban.banned_by]
             banned_member == member_map[ban.ban.banned_user]
             member_invite_chain == get_invite_chain(ms, banning_member)
         IN  IF ~member_invite_chain.ok
             THEN "Error getting invite chain"
             ELSE IF ~\E k \in 1..Len(member_invite_chain.chain) :
                         member_invite_chain.chain[k].id = banned_member.id
             THEN "Banner is not in the invite chain of the banned member"
             ELSE ""
    ELSE ""

RECURSIVE check_bans(_, _, _, _)
check_bans(self, ms, i, invalid_bans) ==
    IF i > Len(self) THEN invalid_bans
    ELSE LET reason == check_ban(self[i], ms)
         IN  check_bans(self, ms, i + 1,
                        IF reason = "" THEN invalid_bans
                        ELSE Insert(invalid_bans, id(self[i]), reason))

\* Vec::sort_by_key(|ban| ban.ban.banned_at): a stable sort, ascending.
RECURSIVE insert_sorted(_, _)
insert_sorted(sorted, x) ==
    IF sorted = <<>> THEN <<x>>
    ELSE IF Head(sorted).ban.banned_at <= x.ban.banned_at
    THEN <<Head(sorted)>> \o insert_sorted(Tail(sorted), x)
    ELSE <<x>> \o sorted

RECURSIVE sort_by_key(_)
sort_by_key(s) ==
    IF s = <<>> THEN <<>>
    ELSE insert_sorted(sort_by_key(SubSeq(s, 1, Len(s) - 1)), s[Len(s)])

\* Vec::reverse
reverse(s) == [i \in 1..Len(s) |-> s[Len(s) + 1 - i]]

\* Iterator::take
take(s, n) == SubSeq(s, 1, IF n < Len(s) THEN n ELSE Len(s))

RECURSIVE insert_all(_, _, _)
insert_all(invalid_bans, s, reason) ==
    IF s = <<>> THEN invalid_bans
    ELSE insert_all(Insert(invalid_bans, id(Head(s)), reason), Tail(s), reason)

\* The quota part left out: no ban is taken.
extra_bans_none(self, max) == <<>>

\* The quota part: the bans taken from the sorted and reversed copy.
extra_bans_taken(self, max) ==
    LET extra_bans == Len(self) - max
    IN  IF extra_bans > 0
        THEN take(reverse(sort_by_key(self)), extra_bans)
        ELSE <<>>

\* BansV1::get_invalid_bans: BanId -> reason.
get_invalid_bans(self, ms, max) ==
    insert_all(check_bans(self, ms, 1, <<>>),
               extra_bans_taken(self, max),
               "Exceeded maximum number of user bans")

\* ------------------------------------------------------------- ComposableState
Ok == [ok |-> TRUE, err |-> ""]
Err(e) == [ok |-> FALSE, err |-> e]

\* BansV1::verify
verify(self, ms, max) ==
    IF DOMAIN get_invalid_bans(self, ms, max) # {}
    THEN Err("Invalid bans")
    ELSE Ok

\* summarize collecting the ids into a set, each id once, in no collection order.
summarize_unique(self) ==
    LET ids == {id(self[i]) : i \in 1..Len(self)}
    IN  IF ids = {} THEN <<>>
        ELSE CHOOSE s \in [1..Cardinality(ids) -> ids] : Range(s) = ids

\* BansV1::summarize
summarize(self) == [i \in 1..Len(self) |-> id(self[i])]

\* Option<Delta>
None == [some |-> FALSE, val |-> <<>>]
Some(d) == [some |-> TRUE, val |-> d]

\* The filter of delta yielding the missing bans last position first.
not_in_summary_reversed(self, old_state_summary) ==
    reverse(SelectSeq(self, LAMBDA b : id(b) \notin Range(old_state_summary)))

\* Iterator::filter over self.0, keeping the bans whose id is not in the summary.
RECURSIVE not_in_summary(_, _)
not_in_summary(self, old_state_summary) ==
    IF self = <<>> THEN <<>>
    ELSE (IF id(Head(self)) \in Range(old_state_summary) THEN <<>> ELSE <<Head(self)>>)
         \o not_in_summary(Tail(self), old_state_summary)

\* delta without the is_empty test: Some of an empty list instead of None.
delta_without_none(self, old_state_summary) ==
    Some(not_in_summary(self, old_state_summary))

\* BansV1::delta
delta(self, old_state_summary) ==
    LET d == not_in_summary(self, old_state_summary)
    IN  IF d = <<>> THEN None ELSE Some(d)

\* apply_delta extending self.0 in place before it verifies.
apply_delta_commit_first(self, ms, max, d) ==
    LET r == verify(self \o d, ms, max)
    IN  IF ~r.ok
        THEN [ok |-> FALSE, err |-> "Invalid delta: " \o r.err, self |-> self \o d]
        ELSE [ok |-> TRUE, err |-> "", self |-> self \o d]

\* apply_delta putting the delta's records in front of the collection.
apply_delta_prepend(self, ms, max, d) ==
    LET temp_bans == d \o self
        r == verify(temp_bans, ms, max)
    IN  IF ~r.ok
        THEN [ok |-> FALSE, err |-> "Invalid delta: " \o r.err, self |-> self]
        ELSE [ok |-> TRUE, err |-> "", self |-> temp_bans]

\* apply_delta keeping the newest max records of the candidate instead of
\* rejecting a candidate over the quota.
apply_delta_evicting(self, ms, max, d) ==
    LET temp_bans == take(reverse(sort_by_key(self \o d)), max)
        r == verify(temp_bans, ms, max)
    IN  IF ~r.ok
        THEN [ok |-> FALSE, err |-> "Invalid delta: " \o r.err, self |-> self]
        ELSE [ok |-> TRUE, err |-> "", self |-> temp_bans]

\* apply_delta returning Ok for an empty delta without verifying.
apply_delta_skip_empty(self, ms, max, d) ==
    LET temp_bans == self \o d
        r == verify(temp_bans, ms, max)
    IN  IF d = <<>> THEN [ok |-> TRUE, err |-> "", self |-> self]
        ELSE IF ~r.ok
        THEN [ok |-> FALSE, err |-> "Invalid delta: " \o r.err, self |-> self]
        ELSE [ok |-> TRUE, err |-> "", self |-> temp_bans]

\* BansV1::apply_delta: the result and the collection the receiver holds after it.
apply_delta(self, ms, max, d) ==
    LET temp_bans == self \o d
        r == verify(temp_bans, ms, max)
    IN  IF ~r.ok
        THEN [ok |-> FALSE, err |-> "Invalid delta: " \o r.err, self |-> self]
        ELSE [ok |-> TRUE, err |-> "", self |-> temp_bans]

\* ------------------------------------------------------------- #[contractual]
\* The named fields of the annotated struct, in declaration order: three of
\* the sub-states of the room.
field_names == <<"configuration", "members", "bans">>

Fields == Range(field_names)

\* A field's value, its Delta and its State are values of 0..MaxLeaf.
MaxLeaf == 1

LeafValues == 0..MaxLeaf

\* The values of the annotated struct (also its State and its Delta).
Rooms == [Fields -> LeafValues]

DefaultRoom == [f \in Fields |-> 0]

\* `&state.#name`: the part of the aggregate an operation of field `name` is given.
field_of(state, name) == [g \in {name} |-> state[g]]

\* Contractual::verify of a field's type: leaf[name] tells whether it accepts
\* what it is called with; its error names the field.
leaf_verify(leaf, call) == IF leaf[call.field] THEN Ok ELSE Err(call.field)

\* Contractual::apply_delta of a field's type: the merged value when the merge
\* is valid (leaf[name]), the value it held otherwise.
leaf_apply_delta(leaf, call) == IF leaf[call.field] THEN call.delta ELSE call.self

\* verify_impl evaluating every field and keeping the last error.
RECURSIVE verify_impl_last_error(_, _, _, _, _)
verify_impl_last_error(self, state, leaf, i, calls) ==
    IF i > Len(field_names) THEN [result |-> Ok, calls |-> calls]
    ELSE LET name == field_names[i]
             call == [field |-> name, self |-> self[name],
                      state |-> field_of(state, name), delta |-> 0]
             r == leaf_verify(leaf, call)
             rest == verify_impl_last_error(self, state, leaf, i + 1, Append(calls, call))
         IN  IF rest.result.ok THEN [result |-> r, calls |-> rest.calls] ELSE rest

\* verify_impl: `self.#name.verify(&state.#name)?;` for the fields from the i-th on,
\* then Ok(()). The calls made are collected with their arguments.
RECURSIVE verify_impl(_, _, _, _, _)
verify_impl(self, state, leaf, i, calls) ==
    IF i > Len(field_names) THEN [result |-> Ok, calls |-> calls]
    ELSE LET name == field_names[i]
             call == [field |-> name, self |-> self[name],
                      state |-> field_of(state, name), delta |-> 0]
             r == leaf_verify(leaf, call)
         IN  IF ~r.ok THEN [result |-> r, calls |-> Append(calls, call)]
             ELSE verify_impl(self, state, leaf, i + 1, Append(calls, call))

\* The generated verify.
contractual_verify(self, state, leaf) == verify_impl(self, state, leaf, 1, <<>>)

\* apply_delta_impl: `#name: self.#name.apply_delta(&old_state.#name, &delta.#name)`.
apply_delta_impl(self, old_state, d, name) ==
    [field |-> name, self |-> self[name],
     state |-> field_of(old_state, name), delta |-> d[name]]

\* The generated apply_delta: it returns a State (no Result), each field the
\* value its own apply_delta returned.
contractual_apply_delta(self, old_state, d, leaf) ==
    [state |-> [name \in Fields |->
                  leaf_apply_delta(leaf, apply_delta_impl(self, old_state, d, name))],
     calls |-> [i \in 1..Len(field_names) |->
                  apply_delta_impl(self, old_state, d, field_names[i])]]

\* ------------------------------------------------------------- the replica
NoCall ==
    [op |-> "none", ok |-> TRUE, err |-> "", prev |-> <<>>, arg |-> <<>>,
     out |-> None, invalid |-> {}, summary |-> <<>>,
     state |-> DefaultRoom, delta |-> DefaultRoom, leaf |-> [f \in Fields |-> TRUE],
     calls |-> <<>>, room |-> DefaultRoom]

NoNet == [r1 |-> <<>>, r2 |-> <<>>]

\* The variables of the second replica, where there is none.
OneReplica == bans2 = <<>> /\ net = NoNet

Init ==
    /\ members \in Directories
    /\ max_user_bans \in 0..MaxQuota
    /\ bans = <<>>
    /\ last = NoCall
    /\ offered = SignedBanRecords
    /\ OneReplica
    /\ room = DefaultRoom

\* apply_delta with a delta received from the network.
ApplyDelta ==
    /\ last.op = "none"
    /\ \E d \in SeqsUpTo(offered, MaxDelta) :
          LET r == apply_delta(bans, members, max_user_bans, d)
          IN  /\ bans' = r.self
              /\ last' = [NoCall EXCEPT !.op = "apply_delta", !.ok = r.ok,
                                        !.err = r.err, !.prev = bans, !.arg = d]
    /\ UNCHANGED <<members, max_user_bans, offered, bans2, net, room>>

\* The summaries a peer may send: delta only tests the local ids for membership
\* in the summary, so one id that no local ban has stands for all of them.
ForeignIds(self) ==
    LET other == BanIds \ Range(summarize(self))
    IN  IF other = {} THEN {} ELSE {CHOOSE x \in other : TRUE}

Summaries(self) ==
    SeqsUpTo(Range(summarize(self)) \cup ForeignIds(self), MaxDelta)

\* delta against a summary received from a peer, or against the replica's own.
Delta ==
    /\ last.op = "none"
    /\ \E s \in Summaries(bans) \cup {summarize(bans)} :
          last' = [NoCall EXCEPT !.op = "delta", !.arg = s, !.prev = bans,
                                 !.out = delta(bans, s)]
    /\ UNCHANGED <<members, max_user_bans, bans, offered, bans2, net, room>>

\* A sync from a peer holding `peer`: the replica sends summarize(bans), the
\* peer answers delta(peer, summary), the replica applies it when there is one.
Sync ==
    /\ last.op = "none"
    /\ \E peer \in SeqsUpTo(offered, MaxDelta) :
          LET d == delta(peer, summarize(bans))
              r == IF d.some
                   THEN apply_delta(bans, members, max_user_bans, d.val)
                   ELSE [ok |-> TRUE, err |-> "", self |-> bans]
          IN  /\ bans' = r.self
              /\ last' = [NoCall EXCEPT !.op = "sync", !.ok = r.ok, !.prev = bans,
                                        !.arg = peer, !.out = d]
    /\ UNCHANGED <<members, max_user_bans, offered, bans2, net, room>>

\* The caller has taken the result; the replica waits for the next call.
Return ==
    /\ last.op # "none"
    /\ last' = NoCall
    /\ UNCHANGED <<members, max_user_bans, bans, offered, bans2, net, room>>

Next == ApplyDelta \/ Delta \/ Sync \/ Return

Spec == Init /\ [][Next]_vars

\* ------------------------------------------------------------- with a forger
InitForge ==
    /\ members \in Directories
    /\ max_user_bans \in 0..MaxQuota
    /\ bans = <<>>
    /\ last = NoCall
    /\ offered = BanRecords
    /\ OneReplica
    /\ room = DefaultRoom

SpecForge == InitForge /\ [][Next]_vars

\* ------------------------------------------------------------- verify alone
InitVerify ==
    /\ members \in Directories
    /\ max_user_bans \in 0..MaxQuota
    /\ bans \in SeqsUpTo(BanRecords, MaxBans)
    /\ last = NoCall
    /\ offered = {}
    /\ OneReplica
    /\ room = DefaultRoom

\* verify on a collection as constructed (BansV1(vec)).
Verify ==
    /\ last.op = "none"
    /\ LET invalid_bans == get_invalid_bans(bans, members, max_user_bans)
           r == verify(bans, members, max_user_bans)
       IN  last' = [NoCall EXCEPT !.op = "verify", !.ok = r.ok, !.err = r.err,
                                  !.invalid = DOMAIN invalid_bans]
    /\ UNCHANGED <<members, max_user_bans, bans, offered, bans2, net, room>>

NextVerify == Verify

SpecVerify == InitVerify /\ [][NextVerify]_vars

\* ------------------------------------------------------------- delta alone
\* The parent state of tests::test_bans_delta: no members.
InitDelta ==
    /\ members = {}
    /\ max_user_bans \in 0..MaxQuota
    /\ bans \in SeqsUpTo(BanRecords, MaxDelta)
    /\ last = NoCall
    /\ offered = {}
    /\ OneReplica
    /\ room = DefaultRoom

\* summarize on the collection, whatever the parent state.
Summarize ==
    /\ last.op = "none"
    /\ last' = [NoCall EXCEPT !.op = "summarize", !.prev = bans,
                              !.summary = summarize(bans)]
    /\ UNCHANGED <<members, max_user_bans, bans, offered, bans2, net, room>>

NextDelta == Delta \/ Summarize

SpecDelta == InitDelta /\ [][NextDelta]_vars

\* ------------------------------------------------------------- two replicas
\* Both replicas start empty; the deltas a and b, of records signed by their
\* banner, reach the first replica in the order a, b and the second in the
\* order b, a.
InitReorder ==
    /\ members \in Directories
    /\ max_user_bans \in 0..MaxQuota
    /\ bans = <<>>
    /\ bans2 = <<>>
    /\ last = NoCall
    /\ offered = SignedBanRecords
    /\ room = DefaultRoom
    /\ \E a, b \in SeqsUpTo(offered, MaxDelta) :
          net = [r1 |-> <<a, b>>, r2 |-> <<b, a>>]

\* The first replica applies the next delta in flight to it.
Receive1 ==
    /\ net.r1 # <<>>
    /\ bans' = apply_delta(bans, members, max_user_bans, Head(net.r1)).self
    /\ net' = [net EXCEPT !.r1 = Tail(@)]
    /\ UNCHANGED <<members, max_user_bans, last, offered, bans2, room>>

\* The second replica applies the next delta in flight to it.
Receive2 ==
    /\ net.r2 # <<>>
    /\ bans2' = apply_delta(bans2, members, max_user_bans, Head(net.r2)).self
    /\ net' = [net EXCEPT !.r2 = Tail(@)]
    /\ UNCHANGED <<members, max_user_bans, last, offered, bans, room>>

NextReorder == Receive1 \/ Receive2

SpecReorder == InitReorder /\ [][NextReorder]_vars

\* ------------------------------------------------------------- the composed struct
InitContractual ==
    /\ members = {}
    /\ max_user_bans = 0
    /\ bans = <<>>
    /\ last = NoCall
    /\ offered = {}
    /\ OneReplica
    /\ room = DefaultRoom

\* The generated verify on the struct, against any state and with any
\* behaviour of the fields' own verify.
ContractualVerify ==
    /\ last.op = "none"
    /\ \E state \in Rooms, leaf \in [Fields -> BOOLEAN] :
          LET r == contractual_verify(room, state, leaf)
          IN  last' = [NoCall EXCEPT !.op = "contractual_verify", !.ok = r.result.ok,
                                    !.err = r.result.err, !.state = state,
                                    !.leaf = leaf, !.calls = r.calls, !.room = room]
    /\ UNCHANGED <<members, max_user_bans, bans, offered, bans2, net, room>>

\* The generated apply_delta on the struct; the caller keeps the State it
\* returns. There is no Result: the call reports no error.
ContractualApplyDelta ==
    /\ last.op = "none"
    /\ \E old_state \in Rooms, d \in Rooms, leaf \in [Fields -> BOOLEAN] :
          LET r == contractual_apply_delta(room, old_state, d, leaf)
          IN  /\ room' = r.state
              /\ last' = [NoCall EXCEPT !.op = "contractual_apply_delta", !.ok = TRUE,
                                        !.state = old_state, !.delta = d,
                                        !.leaf = leaf, !.calls = r.calls, !.room = room]
    /\ UNCHANGED <<members, max_user_bans, bans, offered, bans2, net>>

NextContractual == ContractualVerify \/ ContractualApplyDelta \/ Return

SpecContractual == InitContractual /\ [][NextContractual]_vars

\* ------------------------------------------------------------- the room
\* A delta to the configuration sub-state of the room: the room's configuration
\* is replaced by a newer one, with another max_user_bans.
ConfigurationDelta ==
    /\ last.op = "none"
    /\ \E max \in 0..MaxQuota :
          /\ max # max_user_bans
          /\ max_user_bans' = max
    /\ UNCHANGED <<members, bans, last, offered, bans2, net, room>>

\* A delta to the members sub-state of the room after which a member is no
\* longer in the directory.
MemberLeaves ==
    /\ last.op = "none"
    /\ \E m \in members : members' = members \ {m}
    /\ UNCHANGED <<max_user_bans, bans, last, offered, bans2, net, room>>

NextRoom == ApplyDelta \/ ConfigurationDelta \/ Return

\* The replica of Spec in a room whose configuration sub-state takes deltas.
SpecRoom == Init /\ [][NextRoom]_vars

\* ------------------------------------------------------------- a room that shrinks
\* The room starts with the owner and two members in a chain of invitations,
\* either O invites A invites B or O invites B invites A, and an empty
\* collection; members leave and the configuration changes while the replica
\* takes deltas of the bans issued at time 1 (by the owner and by A).
InitStale ==
    /\ members \in {{Member("O", NoInviter), Member("A", "O"), Member("B", "A")},
                    {Member("O", NoInviter), Member("B", "O"), Member("A", "B")}}
    /\ max_user_bans \in 0..MaxQuota
    /\ bans = <<>>
    /\ last = NoCall
    /\ offered = {b \in SignedBanRecords : b.ban.banned_at = 1}
    /\ OneReplica
    /\ room = DefaultRoom

NextStale == ApplyDelta \/ ConfigurationDelta \/ MemberLeaves \/ Return

SpecStale == InitStale /\ [][NextStale]_vars

\* ------------------------------------------------------------- properties
IdsOf(ms) == {m.id : m \in ms}

\* x lies in the invite chain of y: y's chain resolves and x is one of its inviters.
InInviteChainOf(x, y, ms) ==
    /\ y \in IdsOf(ms)
    /\ LET r == get_invite_chain(ms, members_by_member_id(ms)[y])
       IN  r.ok /\ \E k \in 1..Len(r.chain) : r.chain[k].id = x

\* The ban passes the rules of the loop (member presence, invite chain).
Authorized(b, ms) == check_ban(b, ms) = ""

\* C1: apply_delta is all-or-nothing: when the candidate (the previous
\* collection followed by the delta) fails verify, the call returns Err and the
\* collection is the one held before the call.
C1_AllOrNothing ==
    (last.op = "apply_delta"
        /\ ~verify(last.prev \o last.arg, members, max_user_bans).ok)
    => (~last.ok /\ bans = last.prev)

\* C1 witness: a delta of two records within the quota was rejected for one
\* record although the other would have been accepted alone.
C1_Witness ==
    /\ last.op = "apply_delta"
    /\ ~last.ok
    /\ Len(last.arg) = 2
    /\ Len(last.prev) + Len(last.arg) <= max_user_bans
    /\ \E i \in 1..2 :
          /\ verify(last.prev \o <<last.arg[i]>>, members, max_user_bans).ok
          /\ ~Authorized(last.arg[3 - i], members)
    /\ bans = last.prev

\* C2: for a ban whose banner is not the owner (banner and target in the
\* directory, quota not exceeded, no other record with the same id), validation
\* accepts the ban iff the banner lies in the invite chain of the banned member.
C2_BannerInTargetChain ==
    (last.op = "verify" /\ Len(bans) <= max_user_bans)
    => \A i \in 1..Len(bans) :
          (/\ bans[i].banned_by # owner_id
           /\ bans[i].banned_by \in IdsOf(members)
           /\ bans[i].ban.banned_user \in IdsOf(members)
           /\ \A j \in 1..Len(bans) : id(bans[j]) = id(bans[i]) => bans[j] = bans[i])
          => (id(bans[i]) \notin last.invalid
                <=> InInviteChainOf(bans[i].banned_by, bans[i].ban.banned_user, members))

\* The number of bans of the collection that are strictly older than its i-th.
OlderThan(self, i) ==
    Cardinality({j \in 1..Len(self) : self[j].ban.banned_at < self[i].ban.banned_at})

\* C3: when the collection exceeds max_user_bans, all banned_at are distinct
\* and every ban passes the authorization rules, the invalid bans are exactly
\* the Len - max_user_bans oldest ones.
C3_OldestEvicted ==
    (/\ last.op = "verify"
     /\ Len(bans) > max_user_bans
     /\ \A i, j \in 1..Len(bans) :
           i # j => bans[i].ban.banned_at # bans[j].ban.banned_at
     /\ \A i \in 1..Len(bans) : Authorized(bans[i], members))
    => last.invalid =
          {id(bans[i]) : i \in {k \in 1..Len(bans) :
                                   OlderThan(bans, k) < Len(bans) - max_user_bans}}

\* C4: two replicas that started from the same collection and have both been
\* offered the deltas a and b, in opposite orders, hold the same ban records.
C4_Convergence ==
    (net.r1 = <<>> /\ net.r2 = <<>>) => Range(bans) = Range(bans2)

\* C5: apply_delta with a delta that holds a record the collection already
\* holds returns Err and leaves the number of records unchanged.
C5_DuplicateRejected ==
    (last.op = "apply_delta" /\ Range(last.arg) \cap Range(last.prev) # {})
    => (~last.ok /\ Len(bans) = Len(last.prev))

\* C6: a record whose signature does not verify under the key of the member
\* named in banned_by is never accepted: no collection the replica holds
\* contains one, and apply_delta rejects every delta that contains one.
C6_SignatureEnforced ==
    /\ \A i \in 1..Len(bans) : verify_signature(bans[i], bans[i].banned_by)
    /\ (last.op = "apply_delta"
          /\ \E i \in 1..Len(last.arg) :
                ~verify_signature(last.arg[i], last.arg[i].banned_by))
       => ~last.ok

\* C7: in every collection verify accepts, each ban's banned_by and banned_user
\* is the id of a member of the directory, bans issued by the owner included.
C7_MemberPresence ==
    (last.op = "verify" /\ last.ok)
    => \A i \in 1..Len(bans) :
          /\ bans[i].banned_by \in IdsOf(members)
          /\ bans[i].ban.banned_user \in IdsOf(members)

\* C7 witness: verify accepted a collection that holds a ban issued by the owner.
C7_Witness ==
    /\ last.op = "verify"
    /\ last.ok
    /\ \E i \in 1..Len(bans) : bans[i].banned_by = owner_id

\* C8: with the quota not exceeded, verify succeeds iff for every ban the
\* banner and the target are in the directory and the banner is the owner or
\* lies in the banned user's invite chain.
C8_AuthorizationIff ==
    (last.op = "verify" /\ Len(bans) <= max_user_bans)
    => (last.ok <=>
          \A i \in 1..Len(bans) :
             /\ bans[i].banned_by \in IdsOf(members)
             /\ bans[i].ban.banned_user \in IdsOf(members)
             /\ \/ bans[i].banned_by = owner_id
                \/ InInviteChainOf(bans[i].banned_by, bans[i].ban.banned_user,
                                   members))

\* C9: a sync from a valid peer collection whose records include every record
\* of the replica succeeds and leaves the replica holding exactly the peer's
\* set of records, after which neither side has a delta for the other.
C9_RoundTrip ==
    (/\ last.op = "sync"
     /\ verify(last.arg, members, max_user_bans).ok
     /\ Range(last.prev) \subseteq Range(last.arg))
    => /\ last.ok
       /\ Range(bans) = Range(last.arg)
       /\ delta(last.arg, summarize(bans)) = None
       /\ delta(bans, summarize(last.arg)) = None

\* C10: delta returns None whenever every local ban id is contained in the
\* old summary, in particular against the collection's own summary.
C10_DeltaNoneWhenCovered ==
    (last.op = "delta"
        /\ \A i \in 1..Len(bans) : id(bans[i]) \in Range(last.arg))
    => last.out = None

\* C10 witness: delta of a collection of two different records against its own
\* summary returned None.
C10_Witness ==
    /\ last.op = "delta"
    /\ Len(bans) = 2
    /\ bans[1] # bans[2]
    /\ last.arg = summarize(bans)
    /\ last.out = None

\* The records of `self` whose id the summary does not hold, in the order of `self`.
MissingFrom(self, s) == SelectSeq(self, LAMBDA b : id(b) \notin Range(s))

\* C11: delta returns exactly the local records whose id is not in the old
\* summary, in local collection order, as Some of that list; it returns None
\* only when no record is missing and never Some of an empty list.
C11_DeltaContent ==
    (last.op = "delta")
    => /\ last.out.some => (last.out.val = MissingFrom(bans, last.arg)
                               /\ last.out.val # <<>>)
       /\ ~last.out.some => MissingFrom(bans, last.arg) = <<>>

\* C11 witness: against a summary that holds one of two local ids and an id no
\* local ban has, delta returned the one missing record; against the empty
\* summary the whole collection is returned.
C11_Witness ==
    /\ last.op = "delta"
    /\ Len(bans) = 2
    /\ id(bans[1]) # id(bans[2])
    /\ id(bans[1]) \in Range(last.arg)
    /\ id(bans[2]) \notin Range(last.arg)
    /\ Range(last.arg) \ Range(summarize(bans)) # {}
    /\ last.out = Some(<<bans[2]>>)
    /\ delta(bans, <<>>) = Some(bans)

\* C12: the summary has one entry per ban record, in collection order, entry i
\* being the id of record i, whatever the parent state and the parameters.
C12_SummarizeIds ==
    (last.op = "summarize")
    => /\ Len(last.summary) = Len(bans)
       /\ \A i \in 1..Len(bans) : last.summary[i] = id(bans[i])
       /\ Range(last.summary) = {id(b) : b \in Range(bans)}

\* C12 witness: the summary of a collection of two records with different ids
\* is the two ids in the order of the records.
C12_Witness ==
    /\ last.op = "summarize"
    /\ Len(bans) = 2
    /\ id(bans[1]) # id(bans[2])
    /\ last.summary = <<id(bans[1]), id(bans[2])>>

\* C13: the quota validation compares against cannot change: a collection that
\* verify accepts still passes verify after any step that leaves the collection
\* and the member directory as they are.
C13_QuotaFixed ==
    [][(verify(bans, members, max_user_bans).ok
           /\ bans' = bans /\ members' = members)
       => verify(bans', members', max_user_bans').ok]_vars

\* The classes of the spec's error taxonomy that the reasons of the invalid
\* bans of a collection fall into.
ReasonClass(reason) ==
    IF reason = "Exceeded maximum number of user bans" THEN "quota"
    ELSE IF reason = "Error getting invite chain" THEN "integrity"
    ELSE "authorization"

FailureClasses(self, ms, max) ==
    LET invalid_bans == get_invalid_bans(self, ms, max)
    IN  {ReasonClass(invalid_bans[k]) : k \in DOMAIN invalid_bans}

\* C14: the error value of a failed verify identifies the class of the
\* violated invariant: a collection that fails for other classes only (quota
\* instead of authorization, integrity instead of quota) under the same parent
\* state gets a different error value.
C14_ErrorClassified ==
    (last.op = "verify" /\ ~last.ok)
    => \A c \in SeqsUpTo(BanRecords, MaxDelta) :
          LET r == verify(c, members, max_user_bans)
          IN  (/\ ~r.ok
               /\ FailureClasses(c, members, max_user_bans)
                     \cap FailureClasses(bans, members, max_user_bans) = {})
              => r.err # last.err

\* The positions of the fields whose own verify fails.
FailingFields(leaf) == {i \in 1..Len(field_names) : ~leaf[field_names[i]]}

Min(S) == CHOOSE x \in S : \A y \in S : x <= y

\* C15: the generated verify returns Ok iff the verify of every field returns
\* Ok; otherwise it returns the error of the first failing field in
\* declaration order, and no field after that one is verified.
C15_AggregateVerify ==
    (last.op = "contractual_verify")
    => LET failing == FailingFields(last.leaf)
       IN  /\ last.ok <=> failing = {}
           /\ failing = {} => Len(last.calls) = Len(field_names)
           /\ failing # {} =>
                 /\ last.err = field_names[Min(failing)]
                 /\ Len(last.calls) = Min(failing)
           /\ \A i \in 1..Len(last.calls) : last.calls[i].field = field_names[i]

\* C15 witness: the first field passes, the second and the third fail; the
\* error is the second field's and the third field was not verified.
C15_Witness ==
    /\ last.op = "contractual_verify"
    /\ FailingFields(last.leaf) = {2, 3}
    /\ ~last.ok
    /\ last.err = field_names[2]
    /\ Len(last.calls) = 2

\* C16: when the merge of some field is invalid, the generated apply_delta
\* reports an error and every field keeps the value it had before the call.
C16_AggregateAllOrNothing ==
    (last.op = "contractual_apply_delta" /\ FailingFields(last.leaf) # {})
    => (~last.ok /\ room = last.room)

\* C17: every field's operation is given the whole aggregate state as its
\* parent context, so that it can read its siblings.
C17_SameParent ==
    (last.op \in {"contractual_verify", "contractual_apply_delta"})
    => \A i \in 1..Len(last.calls) : last.calls[i].state = last.state

\* The collections that hold the records of `self` in another Vec order.
Reorderings(self) ==
    {[i \in 1..Len(self) |-> self[p[i]]] : p \in Permutations(1..Len(self))}

\* C18: validation does not depend on the Vec order: every reordering of the
\* collection gets the same set of invalid BanIds and the same verify result.
C18_OrderIndependent ==
    (last.op = "verify")
    => \A c \in Reorderings(bans) :
          /\ DOMAIN get_invalid_bans(c, members, max_user_bans) = last.invalid
          /\ verify(c, members, max_user_bans).ok = last.ok

\* C19: verify returns for every member directory, cyclic or broken invite
\* links included, and a ban whose banner is not the owner and whose banner's
\* invite-chain lookup fails is marked invalid, so that verify returns Err.
C19_ChainErrorReported ==
    (last.op = "verify")
    => \A i \in 1..Len(bans) :
          (/\ bans[i].banned_by # owner_id
           /\ bans[i].banned_by \in IdsOf(members)
           /\ bans[i].ban.banned_user \in IdsOf(members)
           /\ ~get_invite_chain(members,
                    members_by_member_id(members)[bans[i].banned_by]).ok)
          => (id(bans[i]) \in last.invalid /\ ~last.ok /\ last.err # "")

\* C19 witness: A and B invited each other (a cycle that never reaches the
\* owner); verify returned Err for a collection within the quota that holds
\* the ban of B by A.
C19_Witness ==
    /\ last.op = "verify"
    /\ Member("A", "B") \in members
    /\ Member("B", "A") \in members
    /\ Len(bans) = 1
    /\ Len(bans) <= max_user_bans
    /\ bans[1].banned_by = "A"
    /\ id(bans[1]) \in last.invalid
    /\ ~last.ok

\* C20: from the empty collection, with the member directory and the
\* configuration fixed, after any sequence of apply_delta calls the collection
\* passes verify and holds at most max_user_bans records.
C20_AlwaysValid ==
    /\ verify(bans, members, max_user_bans).ok
    /\ Len(bans) <= max_user_bans

\* C20 witness: a full collection of two records after an apply_delta call
\* that failed.
C20_Witness ==
    /\ last.op = "apply_delta"
    /\ ~last.ok
    /\ Len(last.arg) > 0
    /\ Len(bans) = 2
    /\ Len(bans) = max_user_bans

\* C21: a successful apply_delta leaves the previous collection as a prefix
\* followed by the delta's records in delta order, a failed one leaves the
\* collection as it was; the length of the collection never decreases.
C21_AppendOnly ==
    /\ (last.op = "apply_delta")
       => /\ last.ok => bans = last.prev \o last.arg
          /\ ~last.ok => bans = last.prev
          /\ Len(bans) >= Len(last.prev)
          /\ SubSeq(bans, 1, Len(last.prev)) = last.prev
    /\ (last.op = "sync") => SubSeq(bans, 1, Len(last.prev)) = last.prev

\* C21 witness: a delta of one record was appended to a collection of one
\* other record.
C21_Witness ==
    /\ last.op = "apply_delta"
    /\ last.ok
    /\ Len(last.prev) = 1
    /\ Len(last.arg) = 1
    /\ last.arg[1] # last.prev[1]
    /\ bans = <<last.prev[1], last.arg[1]>>

\* C22: once the collection holds max_user_bans records, every apply_delta
\* with a non-empty delta fails and the collection stays as it is, whatever
\* the banned_at of the records offered.
C22_FullLogFrozen ==
    (/\ last.op = "apply_delta"
     /\ Len(last.prev) = max_user_bans
     /\ last.arg # <<>>)
    => (~last.ok /\ bans = last.prev)

\* C22 witness: a full collection of one record refused a record that is
\* valid on its own and newer than the one it holds.
C22_Witness ==
    /\ last.op = "apply_delta"
    /\ max_user_bans = 1
    /\ Len(last.prev) = 1
    /\ Len(last.arg) = 1
    /\ last.arg[1].ban.banned_at > last.prev[1].ban.banned_at
    /\ verify(last.arg, members, max_user_bans).ok
    /\ ~last.ok
    /\ bans = last.prev

\* C23: while the collection does not pass verify under the current parent
\* state, every apply_delta fails, the one with an empty delta included, and
\* leaves the collection unchanged.
C23_StaleBanBlocks ==
    (/\ last.op = "apply_delta"
     /\ ~verify(last.prev, members, max_user_bans).ok)
    => (~last.ok /\ bans = last.prev)

\* C23 witness: a collection within the quota that was accepted, and whose
\* ban names a member that has since left, refused the empty delta.
C23_Witness ==
    /\ last.op = "apply_delta"
    /\ last.arg = <<>>
    /\ ~last.ok
    /\ bans # <<>>
    /\ Len(bans) <= max_user_bans
    /\ \E i \in 1..Len(bans) : bans[i].ban.banned_user \notin IdsOf(members)

====
